---- MODULE Spec2Model ----
(***************************************************************************)
(* mrustgrep: a line-oriented regex search.  The model covers              *)
(*   src/src/search.rs  (Options, OutputFormat, SearchResult, Searcher,    *)
(*                       SearchIter)                                       *)
(*   src/src/main.rs    (run, main's reporting of the total)               *)
(* Strings are sequences of characters.  A character is an ASCII           *)
(* character, written as a one-character string, or one of the non-ASCII   *)
(* White_Space characters, written as its code point ("U+00A0").  Offsets  *)
(* into a line are 0-based, half-open byte offsets into its UTF-8 text, as *)
(* in the source.                                                          *)
(***************************************************************************)
EXTENDS Integers, Sequences, FiniteSets, TLC

VARIABLES pattern, opts, source, pc, searcher, format, pos, idx, cur,
          yielded, count, out, total, err

vars == <<pattern, opts, source, pc, searcher, format, pos, idx, cur,
          yielded, count, out, total, err>>

(***************************************************************************)
(* Bounds of the model.                                                    *)
(***************************************************************************)
\* longest line source of the scan inputs (number of line reads before EOF)
MaxLines == 3
\* longest pattern and longest line of the single-line inputs
MaxPatLen == 2
MaxLineLen == 3

RECURSIVE StringsUpTo(_, _)
StringsUpTo(chars, n) ==
    IF n = 0 THEN {<<>>}
    ELSE LET shorter == StringsUpTo(chars, n - 1)
         IN  shorter \cup {Append(s, c) : s \in shorter, c \in chars}

(***************************************************************************)
(* The regex crate, as far as the program uses it: Regex::new (syntax      *)
(* check and compilation) and Regex::find_iter.  The dialect modelled is   *)
(* literals, groups "(...)", the greedy repetitions "*" and "+", and the   *)
(* inline flag group "(?i)" that Searcher::new prepends.  A pattern with   *)
(* another metacharacter of the crate's syntax is outside the dialect:     *)
(* ParseItems has no value for it.                                         *)
(***************************************************************************)
\* the case fold of a character under (?i): every letter folds to its lower
\* case (so do the Kelvin sign and the long s), any other character to itself
Lower(c) ==
    CASE c = "A" -> "a" [] c = "B" -> "b" [] c = "C" -> "c" [] c = "D" -> "d"
      [] c = "E" -> "e" [] c = "F" -> "f" [] c = "G" -> "g" [] c = "H" -> "h"
      [] c = "I" -> "i" [] c = "J" -> "j" [] c = "K" -> "k" [] c = "L" -> "l"
      [] c = "M" -> "m" [] c = "N" -> "n" [] c = "O" -> "o" [] c = "P" -> "p"
      [] c = "Q" -> "q" [] c = "R" -> "r" [] c = "S" -> "s" [] c = "T" -> "t"
      [] c = "U" -> "u" [] c = "V" -> "v" [] c = "W" -> "w" [] c = "X" -> "x"
      [] c = "Y" -> "y" [] c = "Z" -> "z"
      [] c = "U+212A" -> "k" [] c = "U+017F" -> "s"
      [] OTHER -> c


\* A literal of the compiled expression keeps its character and, for the
\* case-insensitive comparison, its case fold.
Chr(c, ci)   == [t |-> "chr",  c |-> c,  f |-> Lower(c), ci |-> ci,
                 sub |-> <<>>]
FlagNode     == [t |-> "flag", c |-> "", f |-> "", ci |-> TRUE,  sub |-> <<>>]
Group(items) == [t |-> "grp",  c |-> "", f |-> "", ci |-> FALSE, sub |-> items]
Rep(op, n)   == [t |-> IF op = "*" THEN "star" ELSE "plus",
                 c |-> "", f |-> "", ci |-> FALSE, sub |-> <<n>>]

ParseError == [ok |-> FALSE, items |-> <<>>, next |-> 0]

\* the metacharacters of the crate's syntax that the dialect leaves out
OtherMeta == {"[", "]", "{", "}", "\\", ".", "?", "|", "^", "$"}

\* whether s has the flag group "(?i)" at index i
IsFlagGroup(s, i) ==
    /\ i + 3 <= Len(s)
    /\ s[i + 1] = "?" /\ s[i + 2] = "i" /\ s[i + 3] = ")"

\* Parses the items of one concatenation of s from index i on, up to the end
\* of s or an unconsumed ")"; ci is the case-insensitive flag in force.
RECURSIVE ParseItems(_, _, _, _)
ParseItems(s, i, acc, ci) ==
    IF i > Len(s) THEN [ok |-> TRUE, items |-> acc, next |-> i]
    ELSE LET c == s[i] IN
         CASE c = ")" -> [ok |-> TRUE, items |-> acc, next |-> i]
           [] c = "(" /\ IsFlagGroup(s, i) ->
                ParseItems(s, i + 4, Append(acc, FlagNode), TRUE)
           [] c = "(" /\ (i = Len(s) \/ s[i + 1] # "?") ->
                LET r == ParseItems(s, i + 1, <<>>, ci) IN
                IF r.ok /\ r.next <= Len(s)
                THEN ParseItems(s, r.next + 1,
                                Append(acc, Group(r.items)), ci)
                ELSE ParseError
           [] c \in {"*", "+"} ->
                IF acc = <<>> \/ acc[Len(acc)].t = "flag"
                THEN ParseError
                ELSE ParseItems(s, i + 1,
                                [acc EXCEPT ![Len(acc)] = Rep(c, @)], ci)
           [] c \notin OtherMeta \cup {"(", ")", "*", "+"} ->
                ParseItems(s, i + 1, Append(acc, Chr(c, ci)), ci)

\* the line as the search reads it: each character with its case fold
Haystack(line) ==
    [j \in 1..Len(line) |-> [c |-> line[j], f |-> Lower(line[j])]]

\* whether literal n matches character h of the haystack
CharEq(n, h) == IF n.ci THEN n.f = h.f ELSE n.c = h.c

\* es without the offsets a more preferred way of matching already reaches
RECURSIVE Preferred(_, _)
Preferred(acc, es) ==
    IF es = <<>> THEN acc
    ELSE IF \E j \in 1..Len(acc) : acc[j] = Head(es)
    THEN Preferred(acc, Tail(es))
    ELSE Preferred(Append(acc, Head(es)), Tail(es))

\* The end offsets at which items[k..] can match from offset i of the
\* haystack line, in the order of preference of the leftmost-first search
\* (greedy repetitions try the longest repetition first), each offset once.
RECURSIVE EndsItems(_, _, _, _), EndsItemsOver(_, _, _, _, _),
          EndsNode(_, _, _), StarEnds(_, _, _), StarOver(_, _, _, _, _)
EndsItems(items, k, line, i) ==
    IF k > Len(items) THEN <<i>>
    ELSE EndsItemsOver(items, k + 1, line, EndsNode(items[k], line, i), 1)

EndsItemsOver(items, k, line, es, j) ==
    IF j > Len(es) THEN <<>>
    ELSE EndsItems(items, k, line, es[j])
         \o EndsItemsOver(items, k, line, es, j + 1)

EndsNode(n, line, i) ==
    CASE n.t = "chr"  -> IF i < Len(line) /\ CharEq(n, line[i + 1])
                         THEN <<i + 1>> ELSE <<>>
      [] n.t = "flag" -> <<i>>
      [] n.t = "grp"  -> Preferred(<<>>, EndsItems(n.sub, 1, line, i))
      [] n.t = "star" -> StarEnds(n.sub[1], line, i)
      [] n.t = "plus" -> Preferred(<<>>, StarOver(n.sub[1], line,
                                       EndsNode(n.sub[1], line, i), 1, -1))

StarEnds(n, line, i) ==
    Preferred(<<>>, StarOver(n, line, EndsNode(n, line, i), 1, i) \o <<i>>)

StarOver(n, line, es, j, skip) ==
    IF j > Len(es) THEN <<>>
    ELSE (IF es[j] = skip THEN <<>> ELSE StarEnds(n, line, es[j]))
         \o StarOver(n, line, es, j + 1, skip)

\* the White_Space characters outside ASCII, by their UTF-8 length
WhiteSpace2 == {"U+0085", "U+00A0"}
WhiteSpace3 == {"U+1680", "U+2000", "U+2001", "U+2002", "U+2003", "U+2004",
                "U+2005", "U+2006", "U+2007", "U+2008", "U+2009", "U+200A",
                "U+2028", "U+2029", "U+202F", "U+205F", "U+3000"}

\* the number of bytes of a character in UTF-8
Width(c) ==
    IF c \in WhiteSpace2 \cup {"U+017F"} THEN 2
    ELSE IF c \in WhiteSpace3 \cup {"U+212A"} THEN 3
    ELSE 1

\* the crate's default limit on the nesting of an expression
NestLimit == 250

\* The nesting depth of the parsed expression as the crate counts it: a
\* group, a repetition and a concatenation of two or more items each add one
\* level; a literal, a flag group and the empty expression add none.
RECURSIVE NestItems(_), NestNode(_), NestDeepest(_, _)
NestItems(items) ==
    IF Len(items) = 0 THEN 0
    ELSE IF Len(items) = 1 THEN NestNode(items[1])
    ELSE 1 + NestDeepest(items, 1)

NestNode(n) ==
    CASE n.t \in {"chr", "flag"}  -> 0
      [] n.t = "grp"               -> 1 + NestItems(n.sub)
      [] n.t \in {"star", "plus"}  -> 1 + NestNode(n.sub[1])

\* the deepest nesting among items[k..]
NestDeepest(items, k) ==
    IF k > Len(items) THEN 0
    ELSE LET d    == NestNode(items[k])
             rest == NestDeepest(items, k + 1)
         IN  IF d >= rest THEN d ELSE rest

\* Regex::new: the compiled expression, or the error for a pattern that is
\* not a regular expression (an unclosed or unopened group, a repetition
\* operator with nothing to repeat) or that nests deeper than NestLimit.
Compiled(r, n) ==
    IF r.ok /\ r.next = n + 1 /\ NestItems(r.items) <= NestLimit
    THEN [ok |-> TRUE, items |-> r.items]
    ELSE [ok |-> FALSE, items |-> <<>>]

\* Regex::new also refuses an expression whose compiled program is larger
\* than the crate's size limit (10 MiB).  The program of an expression of
\* the dialect grows linearly with the pattern, and a pattern of up to
\* SizeCheckedLen characters stays below the limit; a longer pattern is
\* outside the model: RegexNew has no value for it.
SizeCheckedLen == 1000

RegexNew(s) ==
    CASE Len(s) <= SizeCheckedLen ->
            Compiled(ParseItems(s, 1, <<>>, FALSE), Len(s))

NoMatch == <<-1, -1>>

\* The leftmost-first search of the regex in line[start..]: the leftmost
\* match, and at that offset the preferred one.
RECURSIVE CoreSearch(_, _, _), CoreSearchOffset(_, _, _, _)
CoreSearch(re, line, start) ==
    IF start > Len(line) THEN NoMatch
    ELSE CoreSearchOffset(re, line, start,
                          EndsItems(re.items, 1, line, start))

\* es: the ends of the matches that start at offset start
CoreSearchOffset(re, line, start, es) ==
    IF es # <<>> THEN <<start, es[1]>>
    ELSE CoreSearch(re, line, start + 1)

\* whether the expression has a repetition
RECURSIVE HasRepetition(_)
HasRepetition(items) ==
    \E k \in 1..Len(items) :
        \/ items[k].t \in {"star", "plus"}
        \/ items[k].t = "grp" /\ HasRepetition(items[k].sub)

\* es: the ends of the matches that start at offset s; the preferred match
MatchAt(s, es) == IF es = <<>> THEN {} ELSE {<<s, es[1]>>}

\* the matches of the regex in line[start..], one for each offset at which
\* the expression matches: the preferred match at that offset
MatchesFrom(re, line, start) ==
    UNION {MatchAt(s, EndsItems(re.items, 1, line, s)) : s \in start..Len(line)}

(***************************************************************************)
(* One unanchored search of the regex in line[start..]: the set of the     *)
(* matches the search can return, empty when it returns None.  The crate   *)
(* chooses at compilation how an expression is searched.  An expression    *)
(* without a repetition is searched for its leftmost match.  For an        *)
(* expression with a repetition the crate may first look for a literal     *)
(* that every match contains and then search backwards from it for the     *)
(* start of the match, and the start it finds is not always the leftmost   *)
(* one: (?i)(b+a)*a on "bbaa" gives (2,3), not (0,4).  Which search is     *)
(* chosen depends on the crate's literal optimizer and on the build, so    *)
(* for such an expression the match is any of the matches in line[start..] *)
(* and only its existence is determined.                                   *)
(***************************************************************************)
FindAt(re, line, start) ==
    IF HasRepetition(re.items)
    THEN MatchesFrom(re, line, start)
    ELSE {CoreSearch(re, line, start)} \ {NoMatch}

\* The search loop of Regex::find_iter, in character positions: successive
\* non-overlapping matches.  Each search starts at the end of the previous
\* match; an empty match that ends where the previous match ended is dropped
\* and the search is repeated one position further on.
\* m is a match found from start on; an empty one at the end of the
\* previous match is replaced by the next match one position further on
SkipOverlappingEmpty(re, line, start, last_end, m) ==
    IF m[1] = m[2] /\ m[2] = last_end
    THEN FindAt(re, line, start + 1)
    ELSE {m}

\* a find_iter that resumes one position after the previous match's start
RECURSIVE FindIter_overlapping(_, _, _, _)
FindIter_overlapping(re, line, start, last_end) ==
    IF FindAt(re, line, start) = {} THEN {<<>>}
    ELSE UNION {{<<m>> \o rest :
                    rest \in FindIter_overlapping(re, line, m[1] + 1, m[2])} :
                m \in FindAt(re, line, start)}

\* the lists of matches the iteration from start on can produce
RECURSIVE FindIter(_, _, _, _), FindIterRest(_, _, _)
FindIter(re, line, start, last_end) ==
    FindIterRest(re, line,
                 UNION {SkipOverlappingEmpty(re, line, start, last_end, m) :
                        m \in FindAt(re, line, start)})

\* found: the matches the search can return, none at the end of the iteration
FindIterRest(re, line, found) ==
    IF found = {} THEN {<<>>}
    ELSE UNION {{<<m>> \o rest : rest \in FindIter(re, line, m[2], m[2])} :
                m \in found}

\* the byte offset of the end of the first i characters of a line
RECURSIVE ByteOffset(_, _)
ByteOffset(line, i) ==
    IF i = 0 THEN 0 ELSE ByteOffset(line, i - 1) + Width(line[i])

\* regex.find_iter(&line).map(|m| (m.start(), m.end())): the byte spans
ByteSpans(line, found) ==
    [k \in 1..Len(found) |->
        <<ByteOffset(line, found[k][1]), ByteOffset(line, found[k][2])>>]

\* the span lists the collect() of search_line can receive
find_iter(re, line) ==
    {ByteSpans(line, found) : found \in FindIter(re, Haystack(line), 0, -1)}


\* &line[start..end] for byte offsets that lie on character boundaries
ByteSlice(line, start, end) ==
    LET inside == {j \in 1..Len(line) : /\ ByteOffset(line, j - 1) >= start
                                        /\ ByteOffset(line, j) <= end}
    IN  IF inside = {} THEN <<>>
        ELSE SubSeq(line, CHOOSE j \in inside : \A x \in inside : j <= x,
                          CHOOSE j \in inside : \A x \in inside : j >= x)

(***************************************************************************)
(* search.rs: Options and OutputFormat.                                    *)
(***************************************************************************)
Options == [show_line_number : BOOLEAN, count_only : BOOLEAN,
            case_ignore : BOOLEAN, match_only : BOOLEAN]

\* a resolution that tests match_only before count_only
OutputFormatFrom_matchfirst(o) ==
    IF o.match_only THEN "MatchOnly"
    ELSE IF o.count_only THEN "CountOnly"
    ELSE IF o.show_line_number THEN "LineNumbered"
    ELSE "FullLine"

\* impl From<&Options> for OutputFormat
OutputFormatFrom(o) ==
    IF o.count_only THEN "CountOnly"
    ELSE IF o.match_only THEN "MatchOnly"
    ELSE IF o.show_line_number THEN "LineNumbered"
    ELSE "FullLine"

(***************************************************************************)
(* search.rs: Searcher.                                                    *)
(***************************************************************************)
NoSearcher == [ok |-> FALSE,
               regex |-> [ok |-> FALSE, items |-> <<>>],
               opts |-> [show_line_number |-> FALSE, count_only |-> FALSE,
                         case_ignore |-> FALSE, match_only |-> FALSE]]

\* a constructor that falls back to the empty pattern when compilation fails
SearcherNew_lenient(p, o) ==
    [ok |-> TRUE,
     regex |-> [ok |-> TRUE, items |-> <<>>],
     opts |-> o]

\* Searcher::new: Ok(Searcher) or the regex compilation error
SearcherNew(p, o) ==
    LET effective == IF o.case_ignore THEN <<"(", "?", "i", ")">> \o p ELSE p
        regex     == RegexNew(effective)
    IN  IF regex.ok THEN [ok |-> TRUE, regex |-> regex, opts |-> o]
        ELSE NoSearcher

\* Searcher::output_format, through Options::output_format
output_format(s) == OutputFormatFrom(s.opts)

None    == [kind |-> "none", line_number |-> 0, line |-> <<>>, matches |-> <<>>]
ReadErr == [kind |-> "err",  line_number |-> 0, line |-> <<>>, matches |-> <<>>]

\* the end of search_line: None if matches.is_empty(), else Some(result)
SomeUnlessEmpty(line_number, line, matches) ==
    IF matches = <<>> THEN None
    ELSE [kind |-> "ok", line_number |-> line_number, line |-> line,
          matches |-> matches]

\* a search_line without the is_empty test
search_line_noskip(s, line_number, line) ==
    {[kind |-> "ok", line_number |-> line_number, line |-> line,
      matches |-> matches] : matches \in find_iter(s.regex, line)}

\* Searcher::search_line: None for a line without a match, else the result;
\* the values it can return, one for each span list find_iter can give
search_line(s, line_number, line) ==
    {SomeUnlessEmpty(line_number, line, matches) :
        matches \in find_iter(s.regex, line)}

(***************************************************************************)
(* search.rs: SearchIter.  The line source is what reader.lines() returns  *)
(* read by read: a line, or a read failure; after the last entry, EOF.     *)
(***************************************************************************)
OkLine(text) == [ok |-> TRUE, text |-> text]
BadLine      == [ok |-> FALSE, text |-> <<>>]

\* a closure that uses enumerate()'s index as it is
LineNumberOf_zerobased(i) == i

\* the closure's line number for enumerate()'s index
LineNumberOf(i) == i + 1

\* the filter_map closure on one item of lines().enumerate(): the values it
\* can return
FilterMapItem(s, i, line_result) ==
    IF line_result.ok
    THEN search_line(s, LineNumberOf(i), line_result.text)
    ELSE {ReadErr}

\* an iterator that has already read the line after the one it returns
RECURSIVE SearchIterNext_readahead(_, _, _, _), FilterMapped_readahead(_, _, _, _, _)
SearchIterNext_readahead(s, src, p, i) ==
    IF p >= Len(src) THEN {[item |-> None, pos |-> p, idx |-> i]}
    ELSE UNION {FilterMapped_readahead(s, src, p, i, mapped) :
                mapped \in FilterMapItem(s, i, src[p + 1])}

FilterMapped_readahead(s, src, p, i, mapped) ==
    IF mapped = None
    THEN SearchIterNext_readahead(s, src, p + 1, i + 1)
    ELSE {[item |-> mapped,
           pos |-> IF p + 2 <= Len(src) THEN p + 2 ELSE p + 1,
           idx |-> i + 1]}

\* SearchIter::next: pulls from lines().enumerate().filter_map(..) until the
\* closure returns Some (a result or the read error) or the source is at EOF.
\* p is the reader's position (lines consumed), i the enumerate() count.
\* The value is the set of the outcomes of the call, one for each value the
\* closure can return for the lines read.
RECURSIVE SearchIterNext(_, _, _, _), FilterMapped(_, _, _, _, _)
SearchIterNext(s, src, p, i) ==
    IF p >= Len(src) THEN {[item |-> None, pos |-> p, idx |-> i]}
    ELSE UNION {FilterMapped(s, src, p, i, mapped) :
                mapped \in FilterMapItem(s, i, src[p + 1])}

\* filter_map with the closure's value for the line read: None asks the
\* source for the next line, Some is the iterator's next element
FilterMapped(s, src, p, i, mapped) ==
    IF mapped = None
    THEN SearchIterNext(s, src, p + 1, i + 1)
    ELSE {[item |-> mapped, pos |-> p + 1, idx |-> i + 1]}

(***************************************************************************)
(* search.rs: SearchResult.                                                *)
(***************************************************************************)
\* a slice that runs from the span's start to the end of the line
match_texts_toend(r) ==
    [k \in 1..Len(r.matches) |->
        ByteSlice(r.line, r.matches[k][1], ByteOffset(r.line, Len(r.line)))]

\* &self.line[start..end] for every span
match_texts(r) ==
    [k \in 1..Len(r.matches) |->
        ByteSlice(r.line, r.matches[k][1], r.matches[k][2])]

\* the characters with the Unicode property White_Space: U+0009 to U+000D,
\* the space, and the non-ASCII ones
WhiteSpace == {"\t", "\n", "U+000B", "\f", "\r", " "}
              \cup WhiteSpace2 \cup WhiteSpace3

\* str::trim_end
RECURSIVE trim_end(_)
trim_end(text) ==
    IF text # <<>> /\ text[Len(text)] \in WhiteSpace
    THEN trim_end(SubSeq(text, 1, Len(text) - 1))
    ELSE text

Digit(d) == CASE d = 0 -> "0" [] d = 1 -> "1" [] d = 2 -> "2" [] d = 3 -> "3"
              [] d = 4 -> "4" [] d = 5 -> "5" [] d = 6 -> "6" [] d = 7 -> "7"
              [] d = 8 -> "8" [] d = 9 -> "9"

\* Display of a usize
RECURSIVE ToDecimal(_)
ToDecimal(n) ==
    IF n < 10 THEN <<Digit(n)>>
    ELSE Append(ToDecimal(n \div 10), Digit(n % 10))

\* SearchResult::format_to: the texts of the writeln! calls it makes
format_to(r, fmt) ==
    CASE fmt = "CountOnly"    -> <<>>
      [] fmt = "MatchOnly"    -> match_texts(r)
      [] fmt = "LineNumbered" ->
            <<ToDecimal(r.line_number) \o <<":", " ">> \o trim_end(r.line)>>
      [] fmt = "FullLine"     -> <<trim_end(r.line)>>

(***************************************************************************)
(* Inputs.                                                                 *)
(***************************************************************************)
PatChars  == {"a", "(", ")", "*", "+"}
LineChars == {"a", "A"}

\* scan inputs: a few patterns and lines, sources of up to MaxLines entries
ScanPatterns == {<<"a", "a">>, <<"a", "+">>, <<"(">>}
ScanLines    == {<<>>, <<"a", "a", "a", "a">>}
ScanEntries  == {OkLine(l) : l \in ScanLines} \cup {BadLine}
Sources      == StringsUpTo(ScanEntries, MaxLines)

\* single-line inputs: every pattern and line up to a length, and an
\* expression whose search does not always return the leftmost match
LinePatterns == StringsUpTo(PatChars, MaxPatLen)
                \cup {<<"(", "b", "+", "a", ")", "*", "a">>}
LineSources  == {<<OkLine(l)>> : l \in StringsUpTo(LineChars, MaxLineLen)
                                       \cup {<<"b", "b", "a", "a">>,
                                             <<"a", " ">>,
                                             <<"U+00A0", "a", "A", " ">>}}
\* with the option main.rs sets
LineOptions  == {o \in Options : o.show_line_number}

InitState ==
    /\ pc = "start"
    /\ searcher = NoSearcher
    /\ format = "unset"
    /\ pos = 0
    /\ idx = 0
    /\ cur = None
    /\ yielded = <<>>
    /\ count = 0
    /\ out = <<>>
    /\ total = -1
    /\ err = "none"

InitScan ==
    /\ pattern \in ScanPatterns
    /\ opts \in Options
    /\ source \in Sources
    /\ InitState

InitLine ==
    /\ pattern \in LinePatterns
    /\ opts \in LineOptions
    /\ source \in LineSources
    /\ InitState

Init == InitScan \/ InitLine

(***************************************************************************)
(* main.rs: run(pattern), and main's report of its result.  The options    *)
(* passed to Searcher::new are an input here (main.rs fixes them to        *)
(* show_line_number only).  out holds the texts of the writeln! calls that *)
(* succeeded; a write to the BufWriter over stdout may fail, and so may    *)
(* its flush when something was written.  err is the error main reports.   *)
(***************************************************************************)
\* a counter of match spans rather than of results
CountStep_spans(c, r) == c + Len(r.matches)

\* count += 1
CountStep(c, r) == c + 1

\* Searcher::new(..)?, searcher.output_format(), searcher.search(reader)
RunNew ==
    /\ pc = "start"
    /\ \E s \in {SearcherNew(pattern, opts)} :
       IF s.ok
       THEN /\ searcher' = s
            /\ format' = output_format(s)
            /\ pc' = "loop"
            /\ err' = err
       ELSE /\ pc' = "exit_err"
            /\ err' = "InvalidPattern"
            /\ UNCHANGED <<searcher, format>>
    /\ count' = 0
    /\ UNCHANGED <<pattern, opts, source, pos, idx, cur, yielded, out, total>>

\* the for loop asks the iterator for its next element; an Err leaves run
\* through `?`, None ends the loop
RunNext ==
    /\ pc = "loop"
    /\ \E n \in SearchIterNext(searcher, source, pos, idx) :
       /\ pos' = n.pos
       /\ idx' = n.idx
       /\ IF n.item.kind = "ok"
          THEN /\ cur' = n.item
               /\ yielded' = Append(yielded, n.item)
               /\ pc' = "body"
               /\ err' = err
          ELSE IF n.item.kind = "err"
          THEN /\ cur' = None
               /\ yielded' = Append(yielded, n.item)
               /\ pc' = "exit_err"
               /\ err' = "LineReadFailure"
          ELSE /\ cur' = None
               /\ yielded' = yielded
               /\ pc' = "flush"
               /\ err' = err
    /\ UNCHANGED <<pattern, opts, source, searcher, format, count, out, total>>

\* the loop body: count the result and format it to the writer; written is
\* the number of writeln! calls of format_to that succeed, and when one
\* fails format_to returns the error and run leaves through `?`
RunBody ==
    /\ pc = "body"
    /\ count' = CountStep(count, cur)
    /\ \E texts \in {format_to(cur, format)} :
       \E written \in 0..Len(texts) :
          /\ out' = out \o SubSeq(texts, 1, written)
          /\ IF written = Len(texts)
             THEN /\ pc' = "loop"
                  /\ err' = err
             ELSE /\ pc' = "exit_err"
                  /\ err' = "WriteFailure"
    /\ cur' = None
    /\ UNCHANGED <<pattern, opts, source, searcher, format, pos, idx,
                   yielded, total>>

\* writer.flush()?, Ok(count), and main's "Total matched lines"; the flush
\* can fail when something was written, and then no total is reported
RunFlush ==
    /\ pc = "flush"
    /\ \E flushed \in IF out = <<>> THEN {TRUE} ELSE BOOLEAN :
          IF flushed
          THEN /\ total' = count
               /\ pc' = "done"
               /\ err' = err
          ELSE /\ total' = total
               /\ pc' = "exit_err"
               /\ err' = "WriteFailure"
    /\ UNCHANGED <<pattern, opts, source, searcher, format, pos, idx, cur,
                   yielded, count, out>>

Next == RunNew \/ RunNext \/ RunBody \/ RunFlush

Spec == Init /\ [][Next]_vars

(***************************************************************************)
(* A client of the library that keeps calling next() on the iterator       *)
(* whatever the previous element was, until the iterator returns None.     *)
(***************************************************************************)
IterNew ==
    /\ pc = "start"
    /\ \E s \in {SearcherNew(pattern, opts)} :
       IF s.ok
       THEN /\ searcher' = s
            /\ pc' = "iter"
       ELSE /\ pc' = "new_err"
            /\ UNCHANGED searcher
    /\ UNCHANGED <<pattern, opts, source, format, pos, idx, cur, yielded,
                   count, out, total, err>>

IterPull ==
    /\ pc = "iter"
    /\ \E n \in SearchIterNext(searcher, source, pos, idx) :
       /\ pos' = n.pos
       /\ idx' = n.idx
       /\ cur' = n.item
       /\ IF n.item = None
          THEN /\ yielded' = yielded
               /\ pc' = "end"
          ELSE /\ yielded' = Append(yielded, n.item)
               /\ pc' = "iter"
    /\ UNCHANGED <<pattern, opts, source, searcher, format, count, out, total,
                   err>>

NextIter == IterNew \/ IterPull

SpecIter == InitScan /\ [][NextIter]_vars

(***************************************************************************)
(* Properties.                                                             *)
(***************************************************************************)
ErrorFree(src) == \A k \in 1..Len(src) : src[k].ok

\* Regex::is_match: some offset of the line starts a match
IsMatch(re, line) ==
    \E st \in 0..Len(line) :
        EndsItems(re.items, 1, Haystack(line), st) # <<>>

\* the source positions among the first p whose line contains a match
MatchingLines(p) ==
    {k \in 1..p : source[k].ok /\ IsMatch(searcher.regex, source[k].text)}

\* the syntax of the dialect, stated on the pattern text: parentheses are
\* balanced and every repetition operator follows something to repeat
ParenDepth(p, k) ==
    Cardinality({j \in 1..k : p[j] = "("})
    - Cardinality({j \in 1..k : p[j] = ")"})

SyntaxValid(p) ==
    /\ \A k \in 1..Len(p) : ParenDepth(p, k) >= 0
    /\ ParenDepth(p, Len(p)) = 0
    /\ \A k \in 1..Len(p) :
          p[k] \in {"*", "+"} => k > 1 /\ p[k - 1] # "("

\* a line with only its trailing line terminators removed
RECURSIVE StripLineTerminators(_)
StripLineTerminators(text) ==
    IF text # <<>> /\ text[Len(text)] \in {"\n", "\r"}
    THEN StripLineTerminators(SubSeq(text, 1, Len(text) - 1))
    ELSE text

\* the number of characters of a line that end at or before byte offset b
CharsBefore(line, b) ==
    Cardinality({j \in 1..Len(line) : ByteOffset(line, j) <= b})

\* the text of span k of result r: the characters between its byte offsets
SpanText(r, k) ==
    LET first == CharsBefore(r.line, r.matches[k][1])
        last  == CharsBefore(r.line, r.matches[k][2])
    IN  [j \in 1..(last - first) |-> r.line[first + j]]

\* one output line per span of every result of rs, in order
RECURSIVE SpanLines(_)
SpanLines(rs) ==
    IF rs = <<>> THEN <<>>
    ELSE [k \in 1..Len(Head(rs).matches) |-> SpanText(Head(rs), k)]
         \o SpanLines(Tail(rs))

\* C1: once the scan has yielded the error of a failed line read it yields
\* no further element, result or error, however often next() is called:
\* an error element is always the last element of the sequence.
C1_ScanHaltsAtReadFailure ==
    \A i \in 1..Len(yielded) : yielded[i].kind = "err" => i = Len(yielded)

\* C2: on a source whose reads all succeed, every yielded result carries the
\* 1-based source position of its line, the counter has advanced once per
\* line read whether or not it matched, and the line numbers of successive
\* results strictly increase.
C2_LineNumbers ==
    ErrorFree(source) =>
        /\ idx = pos
        /\ \A i \in 1..Len(yielded) :
              LET r == yielded[i] IN
              /\ r.kind = "ok"
              /\ r.line_number \in 1..pos
              /\ source[r.line_number] = OkLine(r.line)
              /\ i > 1 => yielded[i - 1].line_number < r.line_number
              /\ (i = Len(yielded) /\ pc = "body") => r.line_number = pos

\* three lines read, the second without a match: results numbered 1 and 3
C2_Witness ==
    /\ ErrorFree(source)
    /\ Len(source) = 3
    /\ ~IsMatch(searcher.regex, source[2].text)
    /\ Len(yielded) = 2
    /\ yielded[1].line_number = 1
    /\ yielded[2].line_number = 3

\* C3: with a valid pattern and an error-free input, in every output mode,
\* the results yielded so far are exactly the lines read so far that contain
\* a match, one result per such line and none for a line without a match.
C3_OneResultPerMatchingLine ==
    (searcher.ok /\ ErrorFree(source)) =>
        /\ \A i \in 1..Len(yielded) : yielded[i].kind = "ok"
        /\ {yielded[i].line_number : i \in 1..Len(yielded)} = MatchingLines(pos)
        /\ Len(yielded) = Cardinality(MatchingLines(pos))

\* a finished scan of three lines of which exactly two match
C3_Witness ==
    /\ pc = "done"
    /\ ErrorFree(source)
    /\ Len(source) = 3
    /\ Len(yielded) = 2
    /\ Cardinality(MatchingLines(3)) = 2

\* C4: the mode is decided by the flags by fixed priority count_only,
\* match_only, show_line_number, else full line; exactly one mode for each of
\* the 16 flag combinations; case_ignore has no effect on it; and
\* Searcher::output_format returns that same mode in every state of the
\* engine's life.
C4_ModeResolution ==
    searcher.ok =>
        /\ format \in {"CountOnly", "MatchOnly", "LineNumbered", "FullLine"}
        /\ (format = "CountOnly") <=> opts.count_only
        /\ (format = "MatchOnly") <=> (~opts.count_only /\ opts.match_only)
        /\ (format = "LineNumbered") <=>
              (~opts.count_only /\ ~opts.match_only /\ opts.show_line_number)
        /\ (format = "FullLine") <=>
              (~opts.count_only /\ ~opts.match_only /\ ~opts.show_line_number)
        /\ output_format(searcher) = format
        /\ OutputFormatFrom([opts EXCEPT !.case_ignore = ~@]) = format

\* count_only and match_only both set: the engine's mode is CountOnly
C4_Witness ==
    /\ searcher.ok
    /\ opts.count_only
    /\ opts.match_only
    /\ format = "CountOnly"

\* C5: in the LineNumbered and FullLine modes every result has written one
\* output line, and the line text of the latest one is the result's line
\* with only trailing line terminators removed (trailing spaces kept).
C5_OnlyTerminatorsTrimmed ==
    (pc = "loop" /\ format \in {"LineNumbered", "FullLine"} /\ yielded # <<>>)
    =>  LET r == yielded[Len(yielded)]
            prefix == IF format = "LineNumbered"
                      THEN ToDecimal(r.line_number) \o <<":", " ">>
                      ELSE <<>>
        IN  /\ Len(out) = Len(yielded)
            /\ out[Len(out)] = prefix \o StripLineTerminators(r.line)

\* C6: in MatchOnly mode, as long as no write has failed, the output is,
\* result by result and span by span in span order, exactly the substrings
\* line[start..end], and nothing else.
C6_MatchOnlyOutput ==
    (format = "MatchOnly" /\ pc # "body" /\ err # "WriteFailure")
    => out = SpanLines(yielded)

\* one result with two spans has been formatted into exactly two lines
C6_Witness ==
    /\ format = "MatchOnly"
    /\ pc = "loop"
    /\ Len(yielded) = 1
    /\ Len(yielded[1].matches) = 2
    /\ Len(out) = 2
    /\ out[1] # <<>>

\* C7: every yielded result has at least one span; every span lies within
\* the line, on character boundaries, and is a match of the expression that
\* ends where the match preferred at its start ends; spans are in
\* left-to-right order without overlap (end_k <= start_k+1); an empty match
\* still advances, so the span list is finite: span starts strictly
\* increase and there are at most len(line) + 1 spans; the iteration is
\* exhaustive: no match starts at or after the end of the last span, but for
\* an empty one exactly there; for an expression without a repetition every
\* span is the leftmost match at or after the end of the previous span; and
\* pattern aa on line aaaa gives [(0,2),(2,4)].
C7_Spans ==
    \A i \in 1..Len(yielded) :
        LET r == yielded[i]
            m == r.matches
            \* character positions of a byte offset, and matching there
            at(b) == CharsBefore(r.line, b)
            ends(p) == EndsItems(searcher.regex.items, 1, Haystack(r.line), p)
            \* no match starts at p, but for an empty one at offset last
            free(p, last) == ends(p) = <<>> \/ (p = last /\ ends(p)[1] = p)
        IN  r.kind = "ok" =>
            /\ Len(m) >= 1
            /\ Len(m) <= Len(r.line) + 1
            /\ \A p \in at(m[Len(m)][2])..Len(r.line) :
                  free(p, at(m[Len(m)][2]))
            /\ ~HasRepetition(searcher.regex.items) =>
                  /\ \A p \in 0..(at(m[1][1]) - 1) : ends(p) = <<>>
                  /\ \A k \in 1..(Len(m) - 1) :
                        \A p \in at(m[k][2])..(at(m[k + 1][1]) - 1) :
                            free(p, at(m[k][2]))
            /\ (pattern = <<"a", "a">> /\ r.line = <<"a", "a", "a", "a">>) =>
                  m = << <<0, 2>>, <<2, 4>> >>
            /\ \A k \in 1..Len(m) :
                  /\ 0 <= m[k][1]
                  /\ m[k][1] <= m[k][2]
                  /\ m[k][2] <= ByteOffset(r.line, Len(r.line))
                  /\ ByteOffset(r.line, at(m[k][1])) = m[k][1]
                  /\ ByteOffset(r.line, at(m[k][2])) = m[k][2]
                  /\ at(m[k][2]) = ends(at(m[k][1]))[1]
                  /\ k < Len(m) =>
                        /\ m[k][2] <= m[k + 1][1]
                        /\ m[k][1] < m[k + 1][1]

\* pattern aa has been searched in line aaaa: two spans, the second
\* starting where the first ends
C7_Witness ==
    /\ pattern = <<"a", "a">>
    /\ \E i \in 1..Len(yielded) :
          /\ yielded[i].kind = "ok"
          /\ yielded[i].line = <<"a", "a", "a", "a">>
          /\ yielded[i].matches = << <<0, 2>>, <<2, 4>> >>

\* a result whose spans include an empty match followed by a non-empty one
C7_EmptyMatchAdvances ==
    \E i \in 1..Len(yielded) :
        LET m == yielded[i].matches IN
        /\ Len(m) >= 2
        /\ m[1][1] = m[1][2]
        /\ m[2][1] < m[2][2]

\* C8: with a pattern that is not a valid regular expression no Searcher
\* exists, run fails at construction, no line is ever read, nothing is
\* yielded or written and no total is reported.
C8_InvalidPattern ==
    ~SyntaxValid(pattern) =>
        /\ pc \in {"start", "exit_err"}
        /\ pc = "exit_err" => err = "InvalidPattern"
        /\ ~searcher.ok
        /\ pos = 0
        /\ idx = 0
        /\ yielded = <<>>
        /\ out = <<>>
        /\ total = -1

\* run has failed on an invalid pattern with lines waiting in the source
C8_Witness ==
    /\ ~SyntaxValid(pattern)
    /\ pc = "exit_err"
    /\ err = "InvalidPattern"
    /\ Len(source) > 0

\* C9: a total is reported only once the sequence is exhausted, and it is
\* the number of results yielded, which is the number of matched lines, not
\* the number of spans; in CountOnly mode nothing is written although each
\* result is counted.
C9_TotalIsMatchedLines ==
    /\ total # -1 =>
          /\ pc = "done"
          /\ pos = Len(source)
          /\ total = Len(yielded)
          /\ total = Cardinality(MatchingLines(Len(source)))
    /\ pc \in {"loop", "flush"} => count = Len(yielded)
    /\ format = "CountOnly" => out = <<>>

\* CountOnly, one matched line with two spans: total 1, nothing written
C9_Witness ==
    /\ pc = "done"
    /\ format = "CountOnly"
    /\ total = 1
    /\ Len(yielded[1].matches) = 2

\* C10: when next() hands over the result of line n exactly n lines have
\* been read; a line is read only by a next() call made with no result
\* pending; while the caller holds a result and does not pull, no line is
\* read.
C10_LazySinglePass ==
    /\ [](/\ pos <= Len(source)
          /\ pc = "body" => (cur.kind = "ok" /\ cur.line_number = pos)
          /\ pc # "body" => cur = None)
    /\ [][/\ pos' # pos => (pc = "loop" /\ cur = None)
          /\ pc = "body" => pos' = pos]_vars

\* the result of line 2 is in the caller's hands and line 3 is still unread
C10_Witness ==
    /\ pc = "body"
    /\ cur.line_number = 2
    /\ pos = 2
    /\ Len(source) = 3

====
